---- MODULE Spec2Model ----
(* Order entry of the Lending repository (src/order_entry.py): the Order     *)
(* constructor, OESession.submit_order / submit_orders with its risk gate,   *)
(* the two ledger transactions preliminary_log_order and final_log_order on  *)
(* the session's connection, and get_execution_code.                         *)
EXTENDS Integers, Sequences, FiniteSets, TLC

(* ------------------------------ bounds ---------------------------------- *)
\* longest execution-status list handed to get_execution_code in SpecCodec
MaxStatusLen == 3
\* most Order objects one caller constructs, over all its batches
MaxOrders == 2
\* most submit_order / submit_orders calls on one session
MaxCalls == 2
\* most direct deliveries of an acknowledgment to final_log_order
MaxDeliveries == 1

(* --------------------------- input domains ------------------------------ *)
\* the sessions sharing the store; Callers are the ones that run in Spec
Sessions == {1, 2}
Callers == {1}
ClientIds == {7}

\* a nullable value: Null, or Some(v)
Null == <<>>
Some(v) == <<v>>

\* the arguments <<loan_id, amount, portfolio_id>> callers construct orders
\* from: amounts below, at and above zero, with and without a portfolio
OrderInputs ==
  {<<1, -1, Null>>, <<1, 0, Null>>, <<2, 0, Some(9)>>,
   <<1, 1, Null>>, <<1, 2, Some(9)>>, <<2, 1, Some(9)>>, <<2, 2, Null>>}

\* the result of a call: a returned value, or a raised exception
Ret(v) == [exc |-> "", val |-> <<v>>]
Raise(e) == [exc |-> e, val |-> <<>>]

(* -------------------------- ExecutionStatus ----------------------------- *)
ExecutionStatus ==
  [ORDER_FULFILLED |-> 1,
   LOAN_AMNT_EXCEEDED |-> 2,
   NOT_AN_INFUNDING_LOAN |-> 4,
   REQUESTED_AMNT_LOW |-> 8,
   REQUESTED_AMNT_ROUNDED |-> 16,
   AUGMENTED_BY_MERGE |-> 32,
   ELIM_BY_MERGE |-> 64,
   INSUFFICIENT_CASH |-> 128,
   NOT_AN_INVESTOR |-> 256,
   NOT_A_VALID_INVESTMENT |-> 512,
   NOTE_ADDED_TO_PORTFOLIO |-> 1024,
   NOT_A_VALID_PORTFOLIO |-> 2048,
   ERROR_ADDING_NOTE_TO_PORTFOLIO |-> 4096,
   SYSTEM_BUSY |-> 8192,
   UNKNOWN_ERROR |-> 16384]

StatusNames == DOMAIN ExecutionStatus

\* names the marketplace could send that are no member of ExecutionStatus
UnknownNames == {"BOGUS"}

\* StringEnum.from_str: the member called m, or a failure when there is none
from_str(m) ==
  IF m \in StatusNames THEN Ret(ExecutionStatus[m]) ELSE Raise("DecodeError")

\* operator.ior, mutated: the operands are added
ior_add(a, b) == a + b

\* operator.ior on non-negative integers
RECURSIVE ior(_, _)
ior(a, b) ==
  IF a = 0 THEN b
  ELSE IF b = 0 THEN a
  ELSE (IF a % 2 = 1 \/ b % 2 = 1 THEN 1 ELSE 0) + 2 * ior(a \div 2, b \div 2)

\* reduce(f, seq) without initial value, on a non-empty list, f = ior
RECURSIVE reduce_ior(_)
reduce_ior(l) ==
  IF Len(l) = 1 THEN l[1]
  ELSE ior(reduce_ior(SubSeq(l, 1, Len(l) - 1)), l[Len(l)])

\* reduce(ior, l): an empty list without initial value raises TypeError
reduce(l) ==
  IF l = <<>> THEN Raise("TypeError") ELSE Ret(reduce_ior(l))

\* get_execution_code, mutated: names without a flag are dropped
get_execution_code_skip(execution_list) ==
  LET known == SelectSeq(execution_list, LAMBDA m : m \in StatusNames)
  IN  reduce([k \in 1..Len(known) |-> from_str(known[k]).val[1]])

\* get_execution_code: the list comprehension converts every name first (the
\* first name without a flag raises), then the values are or-ed together
get_execution_code(execution_list) ==
  LET bad == {k \in 1..Len(execution_list) : from_str(execution_list[k]).exc # ""}
  IN  IF bad # {}
      THEN Raise(from_str(execution_list[CHOOSE k \in bad : \A o \in bad : k <= o]).exc)
      ELSE reduce([k \in 1..Len(execution_list) |-> from_str(execution_list[k]).val[1]])

(* ------------------------------- Order ---------------------------------- *)
\* Order.__init__, mutated: only negative amounts are refused
Order_negative_only(loan_id, amount, portfolio_id) ==
  IF amount < 0 THEN Raise("ValueError")
  ELSE Ret([loan_id |-> loan_id, amount |-> amount, portfolio_id |-> portfolio_id])

\* Order.__init__
Order(loan_id, amount, portfolio_id) ==
  IF amount <= 0 THEN Raise("ValueError")
  ELSE Ret([loan_id |-> loan_id, amount |-> amount, portfolio_id |-> portfolio_id])

\* LCOrder(loanId=order.loan_id, requestedAmount=order.amount, portfolioId=...)
LCOrder(order) ==
  [loanId |-> order.loan_id, requestedAmount |-> order.amount,
   portfolioId |-> order.portfolio_id]

(* ------------------------------- state ---------------------------------- *)
VARIABLES
  ledger,         \* committed rows of table orders, in commit order
  clock,          \* the store's current_timestamp
  instructs,      \* acknowledgments the marketplace has issued so far
  pc,             \* per session: where the running call stands, or "idle"
  cur,            \* per session: arguments and locals of the running call,
                  \* kept after it ended until the caller's next step
  res,            \* per session: how the last call ended ("" while none ended)
  phase,          \* per session: the last phase the running/last call reached
  txn,            \* per session: the open transaction of self.conn
  batch,          \* per session: Order objects the caller has built
  ctor,           \* per session: the last Order(...) call and its result
  made,           \* per session: Order objects constructed so far
  calls,          \* per session: submit_order / submit_orders calls made
  deliveries,     \* per session: direct final_log_order calls made
  before,         \* per session: the ledger when the running/last call began
  lastAck,        \* per session: the last acknowledgment received
  prevDelivered,  \* per session: acknowledgment of the call that just ended,
                  \* when that call ran final_log_order to its commit
  execution_list, \* SpecCodec: the argument of get_execution_code
  decoded         \* SpecCodec: its result, Null before the call

vars == <<ledger, clock, instructs, pc, cur, res, phase, txn, batch, ctor,
          made, calls, deliveries, before, lastAck, prevDelivered,
          execution_list, decoded>>

sessionVars == <<ledger, clock, instructs, pc, cur, res, phase, txn, batch,
                 ctor, made, calls, deliveries, before, lastAck, prevDelivered>>

codecVars == <<execution_list, decoded>>

NoAck == [orderInstructId |-> Null, orderConfirmations |-> <<>>]

NoCall ==
  [kind |-> "none", n |-> 0, client_id |-> 0, orders |-> <<>>, i |-> 1,
   order_pack |-> <<>>, ack |-> NoAck, order_list |-> <<>>, j |-> 1,
   rowcount |-> 0, rejected |-> FALSE, invoked |-> FALSE, failed |-> "",
   again |-> FALSE]

\* a connection with no statement executed since the last commit
CleanTxn == [status |-> "idle", ins |-> <<>>, upd |-> <<>>]

NoCtor == [loan_id |-> 0, amount |-> 0, portfolio_id |-> Null, out |-> Raise("none")]

(* ------------------------------ the store ------------------------------- *)
\* the INSERT, mutated: the row is written with an execution code already
IntentRow_resolved(client_id, lc_order, s, n) ==
  [loan_id |-> lc_order.loanId, client_id |-> client_id,
   requested_amount |-> lc_order.requestedAmount,
   invested_amount |-> Null, ex_order_id |-> Null,
   time_acknowledged |-> Null, execution_code |-> Some(0),
   call |-> <<s, n>>]

\* the row INSERT INTO orders (loan_id, client_id, requested_amount) creates;
\* the columns it does not name are NULL. call is not a column: it records
\* which call of which session inserted the row.
IntentRow(client_id, lc_order, s, n) ==
  [loan_id |-> lc_order.loanId, client_id |-> client_id,
   requested_amount |-> lc_order.requestedAmount,
   invested_amount |-> Null, ex_order_id |-> Null,
   time_acknowledged |-> Null, execution_code |-> Null,
   call |-> <<s, n>>]

\* the WHERE clause of the UPDATE, mutated: execution_code IS NULL left out
Matches_any_code(row, od) ==
  /\ row.loan_id = od.loan_id
  /\ row.requested_amount = od.requested_amount

\* the WHERE clause of the UPDATE in final_log_order
Matches(row, od) ==
  /\ row.loan_id = od.loan_id
  /\ row.requested_amount = od.requested_amount
  /\ row.execution_code = Null

\* the SET clause of the UPDATE, mutated: time_acknowledged is not set
Resolve_untimed(row, od, now) ==
  [row EXCEPT !.invested_amount = Some(od.invested_amount),
              !.ex_order_id = Some(od.instruct_id),
              !.execution_code = Some(od.execution_code)]

\* the SET clause of the UPDATE in final_log_order
Resolve(row, od, now) ==
  [row EXCEPT !.invested_amount = Some(od.invested_amount),
              !.ex_order_id = Some(od.instruct_id),
              !.time_acknowledged = Some(now),
              !.execution_code = Some(od.execution_code)]

\* row k of the table as session s sees it: its own pending update if any
ViewRow(s, k) == IF k \in DOMAIN txn[s].upd THEN txn[s].upd[k] ELSE ledger[k]

\* the row locks, mutated: an UPDATE does not wait for another session's
\* uncommitted update of the same row
LockedByOther_none(s) == {}

\* rows some other session has updated and not yet committed (row locks)
LockedByOther(s) ==
  UNION {DOMAIN txn[o].upd : o \in Sessions \ {s}}

\* conn.commit(): the pending updates and inserts become durable; a
\* transaction aborted by a failed statement is rolled back instead
Commit(t) ==
  IF t.status = "aborted" THEN ledger
  ELSE [k \in 1..Len(ledger) |-> IF k \in DOMAIN t.upd THEN t.upd[k] ELSE ledger[k]]
       \o t.ins

\* the UPDATE, mutated: it takes only rows that session s inserted itself
Update_own(s, od) ==
  LET hitL == {k \in 1..Len(ledger) :
                 Matches(ViewRow(s, k), od) /\ ledger[k].call[1] = s}
      hitI == {k \in 1..Len(txn[s].ins) : Matches(txn[s].ins[k], od)}
      dom  == (DOMAIN txn[s].upd) \cup hitL
  IN  [ins |-> IF txn[s].ins = <<>> THEN <<>>
               ELSE [k \in 1..Len(txn[s].ins) |->
                       IF k \in hitI THEN Resolve(txn[s].ins[k], od, clock)
                       ELSE txn[s].ins[k]],
       upd |-> IF dom = {} THEN <<>>
               ELSE [k \in dom |->
                       IF k \in hitL THEN Resolve(ViewRow(s, k), od, clock)
                       ELSE txn[s].upd[k]],
       hits |-> Cardinality(hitL) + Cardinality(hitI),
       locks |-> hitL]

\* one UPDATE statement of the executemany, run by session s for the
\* parameters od: the pending inserts and updates of s afterwards, and the
\* statement's row count
Update(s, od) ==
  LET hitL == {k \in 1..Len(ledger) : Matches(ViewRow(s, k), od)}
      hitI == {k \in 1..Len(txn[s].ins) : Matches(txn[s].ins[k], od)}
      dom  == (DOMAIN txn[s].upd) \cup hitL
  IN  [ins |-> IF txn[s].ins = <<>> THEN <<>>
               ELSE [k \in 1..Len(txn[s].ins) |->
                       IF k \in hitI THEN Resolve(txn[s].ins[k], od, clock)
                       ELSE txn[s].ins[k]],
       upd |-> IF dom = {} THEN <<>>
               ELSE [k \in dom |->
                       IF k \in hitL THEN Resolve(ViewRow(s, k), od, clock)
                       ELSE txn[s].upd[k]],
       hits |-> Cardinality(hitL) + Cardinality(hitI),
       locks |-> hitL]

(* ------------------------- the marketplace ------------------------------ *)
\* what the marketplace may answer for one order: how much was invested
\* (all or nothing of the requested amount) and the execution statuses
Outcomes ==
  {[all |-> TRUE,  executionStatus |-> <<"ORDER_FULFILLED">>],
   [all |-> FALSE, executionStatus |-> <<>>],
   [all |-> FALSE, executionStatus |-> <<"BOGUS">>]}

\* the confirmation of lc_order with outcome o
Confirmation(lc_order, o) ==
  [loanId |-> lc_order.loanId, requestedAmount |-> lc_order.requestedAmount,
   investedAmount |-> IF o.all THEN lc_order.requestedAmount ELSE 0,
   executionStatus |-> o.executionStatus]

\* the acknowledgments the marketplace may return for order_pack: one
\* confirmation per order, under a fresh instruct id
Acks(order_pack, id) ==
  {[orderInstructId |-> Some(id),
    orderConfirmations |-> [k \in 1..Len(order_pack) |-> Confirmation(order_pack[k], os[k])]]
     : os \in [1..Len(order_pack) -> Outcomes]}

\* what the marketplace answers when it merges two orders for one loan: the
\* order that was merged away is not invested
MergeOutcomes ==
  {[all |-> FALSE, executionStatus |-> <<"ELIM_BY_MERGE">>]}

\* the acknowledgments for order_pack when merged orders are reported too
MergeAcks(order_pack, id) ==
  {[orderInstructId |-> Some(id),
    orderConfirmations |-> [k \in 1..Len(order_pack) |-> Confirmation(order_pack[k], os[k])]]
     : os \in [1..Len(order_pack) -> Outcomes \cup MergeOutcomes]}

(* ------------------------------ Init ------------------------------------ *)
Init ==
  /\ ledger = <<>>
  /\ clock = 1
  /\ instructs = 0
  /\ pc = [s \in Sessions |-> "idle"]
  /\ cur = [s \in Sessions |-> NoCall]
  /\ res = [s \in Sessions |-> ""]
  /\ phase = [s \in Sessions |-> "NONE"]
  /\ txn = [s \in Sessions |-> CleanTxn]
  /\ batch = [s \in Sessions |-> <<>>]
  /\ ctor = [s \in Sessions |-> NoCtor]
  /\ made = [s \in Sessions |-> 0]
  /\ calls = [s \in Sessions |-> 0]
  /\ deliveries = [s \in Sessions |-> 0]
  /\ before = [s \in Sessions |-> <<>>]
  /\ lastAck = [s \in Sessions |-> NoAck]
  /\ prevDelivered = [s \in Sessions |-> NoAck]
  /\ execution_list = <<>>
  /\ decoded = Null

(* --------------------------- the caller --------------------------------- *)
\* the caller constructs an Order; one that is constructed joins the batch
\* the caller is preparing. What was kept of the call that ended before is
\* dropped.
NewOrder(s, loan_id, amount, portfolio_id) ==
  /\ pc[s] = "idle"
  /\ calls[s] < MaxCalls
  /\ LET out == Order(loan_id, amount, portfolio_id)
     IN  /\ out.exc = "" => made[s] < MaxOrders
         /\ ctor' = [ctor EXCEPT ![s] = [loan_id |-> loan_id, amount |-> amount,
                                        portfolio_id |-> portfolio_id, out |-> out]]
         /\ batch' = [batch EXCEPT ![s] =
                        IF out.exc = "" THEN Append(@, out.val[1]) ELSE @]
         /\ made' = [made EXCEPT ![s] = IF out.exc = "" THEN @ + 1 ELSE @]
  /\ cur' = [cur EXCEPT ![s] = NoCall]
  /\ res' = [res EXCEPT ![s] = ""]
  /\ phase' = [phase EXCEPT ![s] = "NONE"]
  /\ before' = [before EXCEPT ![s] = <<>>]
  /\ prevDelivered' = [prevDelivered EXCEPT ![s] = NoAck]
  /\ UNCHANGED <<ledger, clock, instructs, pc, txn, calls, deliveries, lastAck>>
  /\ UNCHANGED codecVars

\* entry of submit_orders(investor_id, client_id, orders)
Enter(s, kind, client_id, orders) ==
  /\ pc' = [pc EXCEPT ![s] = "gate"]
  /\ cur' = [cur EXCEPT ![s] = [NoCall EXCEPT !.kind = kind, !.n = calls[s] + 1,
                                  !.client_id = client_id, !.orders = orders]]
  /\ calls' = [calls EXCEPT ![s] = @ + 1]
  /\ res' = [res EXCEPT ![s] = ""]
  /\ phase' = [phase EXCEPT ![s] = "BUILT"]
  /\ before' = [before EXCEPT ![s] = ledger]
  /\ batch' = [batch EXCEPT ![s] = <<>>]
  /\ prevDelivered' = [prevDelivered EXCEPT ![s] = NoAck]
  /\ ctor' = [ctor EXCEPT ![s] = NoCtor]
  /\ UNCHANGED <<made, ledger, clock, instructs, txn, deliveries, lastAck>>
  /\ UNCHANGED codecVars

\* the caller calls submit_orders with the orders it has built
submit_orders(s, client_id) ==
  /\ pc[s] = "idle"
  /\ calls[s] < MaxCalls
  /\ Enter(s, "submit_orders", client_id, batch[s])

\* the caller calls submit_order with one order: orders = [order]
submit_order(s, client_id) ==
  /\ pc[s] = "idle"
  /\ calls[s] < MaxCalls
  /\ Len(batch[s]) = 1
  /\ Enter(s, "submit_order", client_id, <<batch[s][1]>>)

\* the caller hands the last acknowledgment it received to final_log_order
\* again
Redeliver(s) ==
  /\ pc[s] = "idle"
  /\ deliveries[s] < MaxDeliveries
  /\ lastAck[s] # NoAck
  /\ batch[s] = <<>>
  /\ pc' = [pc EXCEPT ![s] = "final"]
  /\ cur' = [cur EXCEPT ![s] = [NoCall EXCEPT !.kind = "final_log_order",
                                  !.ack = lastAck[s],
                                  !.again = (prevDelivered[s] = lastAck[s])]]
  /\ deliveries' = [deliveries EXCEPT ![s] = @ + 1]
  /\ res' = [res EXCEPT ![s] = ""]
  /\ phase' = [phase EXCEPT ![s] = "SUBMITTED"]
  /\ before' = [before EXCEPT ![s] = ledger]
  /\ ctor' = [ctor EXCEPT ![s] = NoCtor]
  /\ UNCHANGED <<made, ledger, clock, instructs, txn, batch, calls, lastAck,
                 prevDelivered>>
  /\ UNCHANGED codecVars

\* the running call of s ends: it returns None (r = "returned") or raises r
Finish(s, r) ==
  /\ pc' = [pc EXCEPT ![s] = "idle"]
  /\ res' = [res EXCEPT ![s] = r]

(* ------------------ submit_orders: the risk gate ------------------------ *)
\* one pass of the for loop in which risk_manager.check(order) is true
RiskApprove(s) ==
  /\ pc[s] = "gate"
  /\ cur[s].i <= Len(cur[s].orders)
  /\ cur' = [cur EXCEPT ![s].order_pack = Append(@, LCOrder(cur[s].orders[cur[s].i])),
                        ![s].i = @ + 1]
  /\ UNCHANGED <<made, ledger, clock, instructs, pc, res, phase, txn, batch, ctor,
                 calls, deliveries, before, lastAck, prevDelivered>>
  /\ UNCHANGED codecVars

\* the pass in which the check is false, mutated: the loop goes on to the
\* next order instead of returning
RiskReject_continue(s) ==
  /\ pc[s] = "gate"
  /\ cur[s].i <= Len(cur[s].orders)
  /\ cur' = [cur EXCEPT ![s].order_pack = Append(@, LCOrder(cur[s].orders[cur[s].i])),
                        ![s].i = @ + 1,
                        ![s].rejected = TRUE]
  /\ UNCHANGED <<made, ledger, clock, instructs, pc, res, phase, txn, batch, ctor,
                 calls, deliveries, before, lastAck, prevDelivered>>
  /\ UNCHANGED codecVars

\* the pass in which risk_manager.check(order) is false: return
RiskReject(s) ==
  /\ pc[s] = "gate"
  /\ cur[s].i <= Len(cur[s].orders)
  /\ cur' = [cur EXCEPT ![s].order_pack = Append(@, LCOrder(cur[s].orders[cur[s].i])),
                        ![s].rejected = TRUE]
  /\ Finish(s, "returned")
  /\ phase' = [phase EXCEPT ![s] = "REJECTED_BY_RISK"]
  /\ UNCHANGED <<made, ledger, clock, instructs, txn, batch, ctor, calls, deliveries,
                 before, lastAck, prevDelivered>>
  /\ UNCHANGED codecVars

\* the loop is over, every order passed: on to preliminary_log_order
GateDone(s) ==
  /\ pc[s] = "gate"
  /\ cur[s].i > Len(cur[s].orders)
  /\ pc' = [pc EXCEPT ![s] = "prelim"]
  /\ phase' = [phase EXCEPT ![s] = "GATED"]
  /\ UNCHANGED <<made, ledger, clock, instructs, cur, res, txn, batch, ctor, calls,
                 deliveries, before, lastAck, prevDelivered>>
  /\ UNCHANGED codecVars

(* ---------------------- preliminary_log_order --------------------------- *)
\* cur.execute('INSERT ...') for the next lc_order succeeds
PrelimInsert(s) ==
  /\ pc[s] = "prelim"
  /\ cur[s].j <= Len(cur[s].order_pack)
  /\ txn[s].status # "aborted"
  /\ txn' = [txn EXCEPT ![s].status = "open",
                        ![s].ins = Append(@, IntentRow(cur[s].client_id,
                                                       cur[s].order_pack[cur[s].j],
                                                       s, cur[s].n))]
  /\ cur' = [cur EXCEPT ![s].j = @ + 1]
  /\ UNCHANGED <<made, ledger, clock, instructs, pc, res, phase, batch, ctor, calls,
                 deliveries, before, lastAck, prevDelivered>>
  /\ UNCHANGED codecVars

\* what a failed statement leaves of transaction t: an error of the server
\* aborts the transaction (its work is lost, later statements fail until it
\* ends); an error raised in the client before the statement is sent leaves
\* the transaction open with its pending work
AfterFailedStatement(t, mode) ==
  IF mode = "server" \/ t.status = "aborted"
  THEN [status |-> "aborted", ins |-> <<>>, upd |-> <<>>]
  ELSE t

FailureModes == {"server", "client"}

\* the INSERT fails, mutated: the error is swallowed and the call goes on to
\* the submission
PrelimInsertFail_swallow(s, mode) ==
  /\ pc[s] = "prelim"
  /\ cur[s].j <= Len(cur[s].order_pack)
  /\ txn' = [txn EXCEPT ![s] = AfterFailedStatement(@, mode)]
  /\ cur' = [cur EXCEPT ![s].failed = "prelim"]
  /\ pc' = [pc EXCEPT ![s] = "submit"]
  /\ UNCHANGED <<made, ledger, clock, instructs, res, phase, batch, ctor, calls,
                 deliveries, before, lastAck, prevDelivered>>
  /\ UNCHANGED codecVars

\* cur.execute('INSERT ...') raises: the error leaves preliminary_log_order
\* and submit_orders (there is no except clause, and no rollback)
PrelimInsertFail(s, mode) ==
  /\ pc[s] = "prelim"
  /\ cur[s].j <= Len(cur[s].order_pack)
  /\ txn' = [txn EXCEPT ![s] = AfterFailedStatement(@, mode)]
  /\ cur' = [cur EXCEPT ![s].failed = "prelim"]
  /\ Finish(s, "PersistenceError")
  /\ UNCHANGED <<made, ledger, clock, instructs, phase, batch, ctor, calls,
                 deliveries, before, lastAck, prevDelivered>>
  /\ UNCHANGED codecVars

\* self.conn.commit(), mutated: control passes to the submission with the
\* inserts still pending
PrelimCommit_skip(s) ==
  /\ pc[s] = "prelim"
  /\ cur[s].j > Len(cur[s].order_pack)
  /\ pc' = [pc EXCEPT ![s] = "submit"]
  /\ phase' = [phase EXCEPT ![s] = "LOGGED_INTENT"]
  /\ UNCHANGED <<made, ledger, txn, clock, instructs, cur, res, batch, ctor, calls,
                 deliveries, before, lastAck, prevDelivered>>
  /\ UNCHANGED codecVars

\* self.conn.commit() after the last INSERT
PrelimCommit(s) ==
  /\ pc[s] = "prelim"
  /\ cur[s].j > Len(cur[s].order_pack)
  /\ ledger' = Commit(txn[s])
  /\ txn' = [txn EXCEPT ![s] = CleanTxn]
  /\ pc' = [pc EXCEPT ![s] = "submit"]
  /\ phase' = [phase EXCEPT ![s] = "LOGGED_INTENT"]
  /\ UNCHANGED <<made, clock, instructs, cur, res, batch, ctor, calls, deliveries,
                 before, lastAck, prevDelivered>>
  /\ UNCHANGED codecVars

\* self.conn.commit() raises: nothing of the transaction becomes durable
PrelimCommitFail(s) ==
  /\ pc[s] = "prelim"
  /\ cur[s].j > Len(cur[s].order_pack)
  /\ txn' = [txn EXCEPT ![s] = CleanTxn]
  /\ cur' = [cur EXCEPT ![s].failed = "prelim"]
  /\ Finish(s, "PersistenceError")
  /\ UNCHANGED <<made, ledger, clock, instructs, phase, batch, ctor, calls,
                 deliveries, before, lastAck, prevDelivered>>
  /\ UNCHANGED codecVars

(* ---------------------- self.client.submit_order ------------------------ *)
\* the client returns, mutated: the call submits the batch a second time
\* before it goes on
ClientReturn_retry(s, ack) ==
  /\ pc[s] = "submit"
  /\ cur' = [cur EXCEPT ![s].ack = ack, ![s].invoked = TRUE]
  /\ lastAck' = [lastAck EXCEPT ![s] = ack]
  /\ instructs' = instructs + 1
  /\ pc' = [pc EXCEPT ![s] = IF cur[s].invoked THEN "final" ELSE "submit"]
  /\ phase' = [phase EXCEPT ![s] = "SUBMITTED"]
  /\ UNCHANGED <<made, ledger, clock, res, txn, batch, ctor, calls, deliveries,
                 before, prevDelivered>>
  /\ UNCHANGED codecVars

\* the marketplace client is invoked and returns an acknowledgment
ClientReturn(s, ack) ==
  /\ pc[s] = "submit"
  /\ cur' = [cur EXCEPT ![s].ack = ack, ![s].invoked = TRUE]
  /\ lastAck' = [lastAck EXCEPT ![s] = ack]
  /\ instructs' = instructs + 1
  /\ pc' = [pc EXCEPT ![s] = "final"]
  /\ phase' = [phase EXCEPT ![s] = "SUBMITTED"]
  /\ UNCHANGED <<made, ledger, clock, res, txn, batch, ctor, calls, deliveries,
                 before, prevDelivered>>
  /\ UNCHANGED codecVars

\* the client raises, mutated: the error is turned into an acknowledgment
\* that reports UNKNOWN_ERROR for every order, and outcome logging runs
ClientRaise_logged(s) ==
  /\ pc[s] = "submit"
  /\ cur' = [cur EXCEPT ![s].invoked = TRUE,
                        ![s].failed = "submit",
                        ![s].ack = [orderInstructId |-> Some(0),
                                    orderConfirmations |->
                                      [k \in 1..Len(cur[s].order_pack) |->
                                         Confirmation(cur[s].order_pack[k],
                                           [all |-> FALSE, executionStatus |-> <<"UNKNOWN_ERROR">>])]]]
  /\ pc' = [pc EXCEPT ![s] = "final"]
  /\ res' = [res EXCEPT ![s] = "SubmissionError"]
  /\ UNCHANGED <<made, ledger, clock, instructs, phase, txn, batch, ctor, calls,
                 deliveries, before, lastAck, prevDelivered>>
  /\ UNCHANGED codecVars

\* the marketplace client is invoked and raises: the error leaves
\* submit_orders, final_log_order is not reached
ClientRaise(s) ==
  /\ pc[s] = "submit"
  /\ cur' = [cur EXCEPT ![s].invoked = TRUE, ![s].failed = "submit"]
  /\ Finish(s, "SubmissionError")
  /\ UNCHANGED <<made, ledger, clock, instructs, phase, txn, batch, ctor, calls,
                 deliveries, before, lastAck, prevDelivered>>
  /\ UNCHANGED codecVars

(* -------------------------- final_log_order ----------------------------- *)
\* the execution code of every confirmation of ack, as lines 111-113 compute
Codes(ack) ==
  [k \in 1..Len(ack.orderConfirmations) |->
     get_execution_code(ack.orderConfirmations[k].executionStatus)]

\* order_dict of lines 114-118 for confirmation c with execution code e
OrderDict(ack, c, e) ==
  [loan_id |-> c.loanId, requested_amount |-> c.requestedAmount,
   invested_amount |-> c.investedAmount, execution_code |-> e,
   instruct_id |-> ack.orderInstructId[1]]

\* the first loop of final_log_order builds order_list
FinalDecode(s) ==
  /\ pc[s] = "final"
  /\ LET codes == Codes(cur[s].ack)
         confs == cur[s].ack.orderConfirmations
     IN  /\ \A k \in 1..Len(codes) : codes[k].exc = ""
         /\ cur' = [cur EXCEPT ![s].order_list =
                      [k \in 1..Len(codes) |->
                         OrderDict(cur[s].ack, confs[k], codes[k].val[1])],
                               ![s].j = 1]
  /\ pc' = [pc EXCEPT ![s] = "update"]
  /\ UNCHANGED <<made, ledger, clock, instructs, res, phase, txn, batch, ctor, calls,
                 deliveries, before, lastAck, prevDelivered>>
  /\ UNCHANGED codecVars

\* get_execution_code raises for some confirmation: the error of the first
\* such confirmation leaves final_log_order before any UPDATE is executed
FinalDecodeFail(s) ==
  /\ pc[s] = "final"
  /\ LET codes == Codes(cur[s].ack)
         bad == {k \in 1..Len(codes) : codes[k].exc # ""}
     IN  /\ bad # {}
         /\ Finish(s, codes[CHOOSE k \in bad : \A o \in bad : k <= o].exc)
  /\ cur' = [cur EXCEPT ![s].failed = "final"]
  /\ prevDelivered' = [prevDelivered EXCEPT ![s] = NoAck]
  /\ UNCHANGED <<made, ledger, clock, instructs, phase, txn, batch, ctor, calls,
                 deliveries, before, lastAck>>
  /\ UNCHANGED codecVars

\* executemany: the UPDATE for the next order_dict succeeds. It waits while
\* another session holds the lock of a row it has to update.
FinalUpdate(s) ==
  /\ pc[s] = "update"
  /\ cur[s].j <= Len(cur[s].order_list)
  /\ txn[s].status # "aborted"
  /\ LET u == Update(s, cur[s].order_list[cur[s].j])
     IN  /\ u.locks \cap LockedByOther(s) = {}
         /\ txn' = [txn EXCEPT ![s] = [status |-> "open", ins |-> u.ins, upd |-> u.upd]]
         /\ cur' = [cur EXCEPT ![s].j = @ + 1, ![s].rowcount = @ + u.hits]
  /\ UNCHANGED <<made, ledger, clock, instructs, pc, res, phase, batch, ctor, calls,
                 deliveries, before, lastAck, prevDelivered>>
  /\ UNCHANGED codecVars

\* executemany raises at the next order_dict: the error leaves
\* final_log_order and submit_orders, nothing is committed or rolled back
FinalUpdateFail(s, mode) ==
  /\ pc[s] = "update"
  /\ cur[s].j <= Len(cur[s].order_list)
  /\ txn' = [txn EXCEPT ![s] = AfterFailedStatement(@, mode)]
  /\ cur' = [cur EXCEPT ![s].failed = "final"]
  /\ prevDelivered' = [prevDelivered EXCEPT ![s] = NoAck]
  /\ Finish(s, "PersistenceError")
  /\ UNCHANGED <<made, ledger, clock, instructs, phase, batch, ctor, calls,
                 deliveries, before, lastAck>>
  /\ UNCHANGED codecVars

\* self.conn.commit() after executemany; final_log_order and its caller
\* return None
FinalCommit(s) ==
  /\ pc[s] = "update"
  /\ cur[s].j > Len(cur[s].order_list)
  /\ ledger' = Commit(txn[s])
  /\ txn' = [txn EXCEPT ![s] = CleanTxn]
  /\ clock' = clock + 1
  /\ prevDelivered' = [prevDelivered EXCEPT ![s] = cur[s].ack]
  /\ phase' = [phase EXCEPT ![s] = "RECONCILED"]
  /\ Finish(s, "returned")
  /\ UNCHANGED <<made, instructs, cur, batch, ctor, calls, deliveries, before, lastAck>>
  /\ UNCHANGED codecVars

\* self.conn.commit() raises: nothing of the transaction becomes durable
FinalCommitFail(s) ==
  /\ pc[s] = "update"
  /\ cur[s].j > Len(cur[s].order_list)
  /\ txn' = [txn EXCEPT ![s] = CleanTxn]
  /\ clock' = clock + 1
  /\ cur' = [cur EXCEPT ![s].failed = "final"]
  /\ prevDelivered' = [prevDelivered EXCEPT ![s] = NoAck]
  /\ Finish(s, "PersistenceError")
  /\ UNCHANGED <<made, ledger, instructs, phase, batch, ctor, calls, deliveries,
                 before, lastAck>>
  /\ UNCHANGED codecVars

(* --------------------------- specification ------------------------------ *)
Step(s) ==
  \/ \E o \in OrderInputs : NewOrder(s, o[1], o[2], o[3])
  \/ \E c \in ClientIds : submit_orders(s, c)
  \/ \E c \in ClientIds : submit_order(s, c)
  \/ Redeliver(s)
  \/ RiskApprove(s)
  \/ RiskReject(s)
  \/ GateDone(s)
  \/ PrelimInsert(s)
  \/ \E m \in FailureModes : PrelimInsertFail(s, m)
  \/ PrelimCommit(s)
  \/ PrelimCommitFail(s)
  \/ \E ack \in Acks(cur[s].order_pack, instructs + 1) : ClientReturn(s, ack)
  \/ ClientRaise(s)
  \/ FinalDecode(s)
  \/ FinalDecodeFail(s)
  \/ FinalUpdate(s)
  \/ \E m \in FailureModes : FinalUpdateFail(s, m)
  \/ FinalCommit(s)
  \/ FinalCommitFail(s)

Next == \E s \in Callers : Step(s)

Spec == Init /\ [][Next]_vars

\* SpecMerge: the same session, the marketplace also reporting merged orders
StepMerge(s) ==
  \/ Step(s)
  \/ \E ack \in MergeAcks(cur[s].order_pack, instructs + 1) : ClientReturn(s, ack)

NextMerge == \E s \in Callers : StepMerge(s)

SpecMerge == Init /\ [][NextMerge]_vars

(* ------------- two sessions on one store (SpecConc) --------------------- *)
\* the caller hands session s the acknowledgment that the other session o
\* received from the marketplace: a duplicate delivery to final_log_order
DeliverDuplicate(s, o) ==
  /\ s # o
  /\ pc[s] = "idle"
  /\ deliveries[1] + deliveries[2] < MaxDeliveries
  /\ lastAck[o] # NoAck
  /\ pc' = [pc EXCEPT ![s] = "final"]
  /\ cur' = [cur EXCEPT ![s] = [NoCall EXCEPT !.kind = "final_log_order",
                                  !.ack = lastAck[o]]]
  /\ deliveries' = [deliveries EXCEPT ![s] = @ + 1]
  /\ res' = [res EXCEPT ![s] = ""]
  /\ phase' = [phase EXCEPT ![s] = "SUBMITTED"]
  /\ before' = [before EXCEPT ![s] = ledger]
  /\ ctor' = [ctor EXCEPT ![s] = NoCtor]
  /\ UNCHANGED <<made, ledger, clock, instructs, txn, batch, calls, lastAck,
                 prevDelivered>>
  /\ UNCHANGED codecVars

\* a step of session s when both sessions submit single orders for the same
\* loan and amount; the orders, calls and deliveries of the two sessions
\* together are bounded
StepConc(s) ==
  \/ made[1] + made[2] < MaxOrders /\ NewOrder(s, 1, 1, Null)
  \/ calls[1] + calls[2] < MaxCalls /\ \E c \in ClientIds : submit_order(s, c)
  \/ \E o \in Sessions : DeliverDuplicate(s, o)
  \/ RiskApprove(s)
  \/ RiskReject(s)
  \/ GateDone(s)
  \/ PrelimInsert(s)
  \/ \E m \in FailureModes : PrelimInsertFail(s, m)
  \/ PrelimCommit(s)
  \/ PrelimCommitFail(s)
  \/ \E ack \in Acks(cur[s].order_pack, instructs + 1) : ClientReturn(s, ack)
  \/ ClientRaise(s)
  \/ FinalDecode(s)
  \/ FinalDecodeFail(s)
  \/ FinalUpdate(s)
  \/ \E m \in FailureModes : FinalUpdateFail(s, m)
  \/ FinalCommit(s)
  \/ FinalCommitFail(s)

NextConc == \E s \in Sessions : StepConc(s)

SpecConc == Init /\ [][NextConc]_vars

(* ------------- get_execution_code on its own (SpecCodec) ---------------- *)
RECURSIVE SeqsUpTo(_, _)
SeqsUpTo(S, n) ==
  IF n = 0 THEN {<<>>}
  ELSE LET shorter == SeqsUpTo(S, n - 1)
       IN  shorter \cup {Append(l, x) : l \in shorter, x \in S}

InitCodec ==
  /\ ledger = <<>>
  /\ clock = 1
  /\ instructs = 0
  /\ pc = [s \in Sessions |-> "idle"]
  /\ cur = [s \in Sessions |-> NoCall]
  /\ res = [s \in Sessions |-> ""]
  /\ phase = [s \in Sessions |-> "NONE"]
  /\ txn = [s \in Sessions |-> CleanTxn]
  /\ batch = [s \in Sessions |-> <<>>]
  /\ ctor = [s \in Sessions |-> NoCtor]
  /\ made = [s \in Sessions |-> 0]
  /\ calls = [s \in Sessions |-> 0]
  /\ deliveries = [s \in Sessions |-> 0]
  /\ before = [s \in Sessions |-> <<>>]
  /\ lastAck = [s \in Sessions |-> NoAck]
  /\ prevDelivered = [s \in Sessions |-> NoAck]
  /\ execution_list \in SeqsUpTo(StatusNames \cup UnknownNames, MaxStatusLen)
  /\ decoded = Null

\* the call get_execution_code(execution_list)
Decode ==
  /\ decoded = Null
  /\ decoded' = Some(get_execution_code(execution_list))
  /\ UNCHANGED execution_list
  /\ UNCHANGED sessionVars

NextCodec == Decode

SpecCodec == InitCodec /\ [][NextCodec]_vars

(* ------------------------------ claims ---------------------------------- *)
Range(l) == {l[k] : k \in 1..Len(l)}

SubmitKinds == {"submit_order", "submit_orders"}

\* the committed rows the running/last call of s inserted, in ledger order
Mine(s) == SelectSeq(ledger, LAMBDA r : r.call = <<s, cur[s].n>>)

\* the rows an all-approved batch has to leave in the ledger: one per order,
\* in batch order, nothing but loan, client and requested amount filled in
ExpectedIntent(s) ==
  [k \in 1..Len(cur[s].orders) |->
     [loan_id |-> cur[s].orders[k].loan_id,
      client_id |-> cur[s].client_id,
      requested_amount |-> cur[s].orders[k].amount,
      invested_amount |-> Null, ex_order_id |-> Null,
      time_acknowledged |-> Null, execution_code |-> Null,
      call |-> <<s, cur[s].n>>]]

\* C1: once the risk check has rejected an order of a batch, the ledger is
\* what it was when the call began, no row of the batch is committed or
\* pending on the connection, and the marketplace client was not invoked.
C1_AllOrNothingRiskGate ==
  \A s \in Sessions :
    cur[s].rejected =>
      /\ ledger = before[s]
      /\ Mine(s) = <<>>
      /\ \A k \in 1..Len(txn[s].ins) : txn[s].ins[k].call # <<s, cur[s].n>>
      /\ ~cur[s].invoked

\* a batch of two is rejected at its second order, the first having been
\* approved, and the call has returned
C1_Witness ==
  \E s \in Sessions :
    /\ cur[s].rejected
    /\ pc[s] = "idle"
    /\ Len(cur[s].orders) = 2
    /\ cur[s].i = 2

\* C2: the intent rows of an all-approved batch become durable together and
\* before the client is invoked: none is in the ledger while the call is
\* gating or inserting, all N are there, with the orders' loan and amount,
\* the call's client id and no outcome, when the call stands at the
\* submission, and whenever the client has been invoked the N rows are there.
C2_IntentBeforeSubmission ==
  \A s \in Sessions :
    /\ pc[s] \in {"gate", "prelim"} => Mine(s) = <<>>
    /\ pc[s] = "submit" => Mine(s) = ExpectedIntent(s)
    /\ cur[s].invoked =>
         /\ Len(Mine(s)) = Len(cur[s].orders)
         /\ \A k \in 1..Len(cur[s].orders) :
              /\ Mine(s)[k].loan_id = cur[s].orders[k].loan_id
              /\ Mine(s)[k].requested_amount = cur[s].orders[k].amount
              /\ Mine(s)[k].client_id = cur[s].client_id

\* the client has been invoked for a batch of two
C2_Witness ==
  \E s \in Sessions :
    /\ cur[s].invoked
    /\ Len(cur[s].orders) = 2

\* C3: a delivery of the acknowledgment that the call just before it
\* delivered updates no row and leaves the ledger as it found it, timestamps
\* included; and a submit call that ran outcome logging to its end left no
\* row of its batch unresolved.
C3_IdempotentReconciliation ==
  \A s \in Sessions :
    /\ cur[s].again =>
         /\ cur[s].rowcount = 0
         /\ txn[s].upd = <<>>
         /\ ledger = before[s]
    /\ (cur[s].kind \in SubmitKinds /\ pc[s] = "idle" /\ phase[s] = "RECONCILED") =>
         \A k \in 1..Len(Mine(s)) : Mine(s)[k].execution_code # Null

\* the second delivery has returned, and the first had resolved a row
C3_Witness ==
  \E s \in Sessions :
    /\ cur[s].again
    /\ pc[s] = "idle"
    /\ res[s] = "returned"
    /\ \E k \in 1..Len(ledger) : ledger[k].ex_order_id = cur[s].ack.orderInstructId

\* C4: when an insert or the commit of preliminary_log_order has raised, the
\* call is over with that error and the client was not invoked.
C4_FailClosedOnIntentFailure ==
  \A s \in Sessions :
    cur[s].failed = "prelim" =>
      /\ pc[s] = "idle"
      /\ res[s] = "PersistenceError"
      /\ ~cur[s].invoked

\* the second insert of a batch of two has failed
C4_Witness ==
  \E s \in Sessions :
    /\ cur[s].failed = "prelim"
    /\ Len(cur[s].order_pack) = 2
    /\ cur[s].j = 2

\* C5: when the client has raised, the call is over with that error, no
\* order_list was built and no UPDATE executed, and the batch's intent rows
\* are in the ledger with every outcome field null.
C5_SubmissionFailureLeavesIntent ==
  \A s \in Sessions :
    cur[s].failed = "submit" =>
      /\ pc[s] = "idle"
      /\ res[s] = "SubmissionError"
      /\ cur[s].order_list = <<>>
      /\ cur[s].rowcount = 0
      /\ txn[s].upd = <<>>
      /\ Mine(s) = ExpectedIntent(s)

\* the client has raised for a batch of two, whose rows are in the ledger
C5_Witness ==
  \E s \in Sessions :
    /\ cur[s].failed = "submit"
    /\ Len(cur[s].orders) = 2
    /\ Len(ledger) = 2

\* C6: submit_order and submit_orders return normally only on full success.
C6_ReturnsOnlyOnSuccess ==
  \A s \in Sessions :
    (cur[s].kind \in SubmitKinds /\ pc[s] = "idle" /\ res[s] = "returned") =>
      phase[s] = "RECONCILED"

\* the flags set in bitmask v
Bits(v) == {b \in {ExecutionStatus[m] : m \in StatusNames} : (v \div b) % 2 = 1}

IsPowerOfTwo(v) == \E k \in 0..14 : v = 2^k

\* C7: the 15 flag values are distinct powers of two, and for a non-empty
\* list of recognized names get_execution_code returns the number below
\* 2^15 whose set bits are exactly the flags of the names in the list.
C7_DecodeCorrect ==
  /\ Cardinality(StatusNames) = 15
  /\ \A m \in StatusNames : IsPowerOfTwo(ExecutionStatus[m])
  /\ \A m, o \in StatusNames : ExecutionStatus[m] = ExecutionStatus[o] => m = o
  /\ (decoded # Null /\ execution_list # <<>> /\ Range(execution_list) \subseteq StatusNames) =>
       /\ decoded[1].exc = ""
       /\ decoded[1].val[1] \in 1..(2^15 - 1)
       /\ Bits(decoded[1].val[1]) = {ExecutionStatus[m] : m \in Range(execution_list)}
  /\ (decoded # Null /\ execution_list = <<"ORDER_FULFILLED", "REQUESTED_AMNT_ROUNDED">>) =>
       decoded[1] = Ret(17)

\* a list with a repeated name, in the other order, decodes to 17 as well
C7_Witness ==
  /\ execution_list = <<"REQUESTED_AMNT_ROUNDED", "ORDER_FULFILLED", "REQUESTED_AMNT_ROUNDED">>
  /\ decoded = Some(Ret(17))

\* C8: for a list with a name that is no flag, get_execution_code raises
\* and returns nothing, wherever the name stands.
C8_DecodeRejectsUnknown ==
  (decoded # Null /\ ~(Range(execution_list) \subseteq StatusNames)) =>
    /\ decoded[1].exc # ""
    /\ decoded[1].val = <<>>

\* the unknown name stands between two recognized ones
C8_Witness ==
  /\ execution_list = <<"ORDER_FULFILLED", "BOGUS", "UNKNOWN_ERROR">>
  /\ decoded = Some(Raise("DecodeError"))

\* C9: get_execution_code of the empty list returns 0.
C9_EmptyDecodesToZero ==
  (decoded # Null /\ execution_list = <<>>) => decoded[1] = Ret(0)

\* C10: Order(...) raises ValueError and yields no Order when amount <= 0,
\* yields an Order with exactly the given fields when amount > 0, and no
\* order, order of a pack or ledger row has a non-positive amount.
C10_OrderValidation ==
  \A s \in Sessions :
    /\ ctor[s] # NoCtor =>
         /\ ctor[s].amount <= 0 => ctor[s].out = Raise("ValueError")
         /\ ctor[s].amount > 0 =>
              /\ ctor[s].out.exc = ""
              /\ ctor[s].out.val[1].loan_id = ctor[s].loan_id
              /\ ctor[s].out.val[1].amount = ctor[s].amount
              /\ ctor[s].out.val[1].portfolio_id = ctor[s].portfolio_id
    /\ \A o \in Range(batch[s]) \cup Range(cur[s].orders) : o.amount > 0
    /\ \A o \in Range(cur[s].order_pack) : o.requestedAmount > 0
    /\ \A r \in Range(ledger) \cup Range(txn[s].ins) : r.requested_amount > 0

\* a construction with amount 0 has failed after one that succeeded, and an
\* earlier batch has reached the ledger
C10_Witness ==
  \E s \in Sessions :
    /\ ctor[s].amount = 0
    /\ ctor[s].out = Raise("ValueError")
    /\ Len(batch[s]) = 1
    /\ ledger # <<>>

\* C11: after a submit call that ran to its end, the row inserted for the
\* k-th order holds the outcome of the k-th confirmation: its invested
\* amount, the acknowledgment's instruct id, a timestamp, and the execution
\* code of its status names.
C11_OutcomeWrittenToMatchingRow ==
  \A s \in Sessions :
    (cur[s].kind \in SubmitKinds /\ pc[s] = "idle" /\ phase[s] = "RECONCILED") =>
      /\ Len(Mine(s)) = Len(cur[s].ack.orderConfirmations)
      /\ \A k \in 1..Len(Mine(s)) :
           LET c == cur[s].ack.orderConfirmations[k]
           IN  /\ Mine(s)[k].loan_id = c.loanId
               /\ Mine(s)[k].requested_amount = c.requestedAmount
               /\ Mine(s)[k].invested_amount = Some(c.investedAmount)
               /\ Mine(s)[k].ex_order_id = cur[s].ack.orderInstructId
               /\ Mine(s)[k].time_acknowledged # Null
               /\ Mine(s)[k].execution_code = get_execution_code(c.executionStatus).val

\* the four outcome fields of a row are all null
Unresolved(row) ==
  /\ row.invested_amount = Null
  /\ row.ex_order_id = Null
  /\ row.time_acknowledged = Null
  /\ row.execution_code = Null

\* one step of the ledger's life, statement by statement: no row is deleted
\* or moved; a row whose execution code is set, durable or pending, never
\* changes again; every row an INSERT adds to a transaction has no outcome;
\* and a row becomes durable only as a pending insert of some session
C12_Step ==
  /\ Len(ledger') >= Len(ledger)
  /\ \A k \in 1..Len(ledger) :
       /\ ledger'[k].call = ledger[k].call
       /\ ledger[k].execution_code # Null => ledger'[k] = ledger[k]
  /\ \A k \in (Len(ledger) + 1)..Len(ledger') :
       \E s \in Sessions : ledger'[k] \in Range(txn[s].ins)
  /\ \A s \in Sessions :
       /\ \A k \in (Len(txn[s].ins) + 1)..Len(txn'[s].ins) :
            Unresolved(txn'[s].ins[k])
       /\ \A k \in 1..Len(txn[s].ins) :
            (k <= Len(txn'[s].ins) /\ txn[s].ins[k].execution_code # Null) =>
              txn'[s].ins[k] = txn[s].ins[k]
       /\ \A k \in (DOMAIN txn[s].upd) \cap (DOMAIN txn'[s].upd) :
            txn[s].upd[k].execution_code # Null => txn'[s].upd[k] = txn[s].upd[k]

\* C12: over any sequence of submit calls and deliveries, failed and
\* repeated ones included, every ledger row is created with its outcome
\* fields null, is never changed once its execution code is set, and is
\* never deleted.
C12_RowLifecycle == [][C12_Step]_vars

\* a resolved row of an earlier call stands in the ledger next to an
\* unresolved row of a later call
C12_Witness ==
  /\ Len(ledger) >= 2
  /\ ledger[1].execution_code # Null
  /\ Unresolved(ledger[2])
  /\ ledger[2].call # ledger[1].call

\* a row becomes durable only in the commit that ends the intent logging of
\* its own call, which is reached only when every insert of the batch
\* succeeded
C14_Step ==
  \A k \in (Len(ledger) + 1)..Len(ledger') :
    \E s \in Sessions :
      /\ pc[s] = "prelim"
      /\ pc'[s] = "submit"
      /\ cur[s].failed = ""
      /\ ledger'[k].call = <<s, cur[s].n>>

\* C14: when the insert of a row of a batch fails in preliminary_log_order,
\* no row of that batch is committed, at the failure or by any later
\* operation on the same session: the only commit that makes a row of a
\* batch durable is the one after the batch's last insert.
C14_BatchAtomicIntentWrite == [][C14_Step]_vars

\* a durable row changes only in the commit that ends an outcome logging all
\* of whose decodings and updates succeeded, and only if that logging
\* updated it
C15_Step ==
  \A k \in 1..Len(ledger) :
    ledger'[k] # ledger[k] =>
      \E s \in Sessions :
        /\ pc[s] = "update"
        /\ cur[s].j > Len(cur[s].order_list)
        /\ cur[s].failed = ""
        /\ res'[s] = "returned"
        /\ k \in DOMAIN txn[s].upd

\* C15: outcome logging for one acknowledgment is all or nothing: when a
\* decoding or an update fails, no ledger row is updated for any of its
\* confirmations and the rows of the batch stay unresolved; a row is
\* resolved only by the commit of a logging that succeeded as a whole.
C15_BatchAtomicOutcomeWrite == [][C15_Step]_vars

\* C16: each confirmation processed by outcome logging resolves at most one
\* ledger row: after the first j - 1 UPDATEs of an executemany, at most
\* j - 1 rows have been resolved, also when several unresolved rows share a
\* loan and amount.
C16_OneRowPerConfirmation ==
  \A s \in Sessions :
    cur[s].order_list # <<>> => cur[s].rowcount <= cur[s].j - 1

\* where control of a submit call can go next from each place
NextPlaces(p) ==
  CASE p = "gate"   -> {"prelim", "idle"}
    [] p = "prelim" -> {"submit", "idle"}
    [] p = "submit" -> {"final", "idle"}
    [] p = "final"  -> {"update", "idle"}
    [] p = "update" -> {"idle"}
    [] OTHER        -> {}

\* the phase a call can reach next from each phase
NextPhases(p) ==
  CASE p = "BUILT"         -> {"GATED", "REJECTED_BY_RISK"}
    [] p = "GATED"         -> {"LOGGED_INTENT"}
    [] p = "LOGGED_INTENT" -> {"SUBMITTED"}
    [] p = "SUBMITTED"     -> {"RECONCILED"}
    [] OTHER               -> {}

\* the pending inserts of the running call of s
MinePending(s) == SelectSeq(txn[s].ins, LAMBDA r : r.call = <<s, cur[s].n>>)

\* what holds of a submit call wherever it stands: the orders checked so far
\* are the first orders of the batch, each once and in batch order; nothing
\* is written or submitted while gating; each order is inserted once; the
\* client has not been invoked before the submission and has returned an
\* acknowledgment before outcome logging; a rejected call has ended in the
\* gate
C18_Inv ==
  \A s \in Sessions :
    cur[s].kind \in SubmitKinds =>
      /\ Len(cur[s].order_pack) <= Len(cur[s].orders)
      /\ \A k \in 1..Len(cur[s].order_pack) :
           cur[s].order_pack[k] = LCOrder(cur[s].orders[k])
      /\ pc[s] = "gate" =>
           /\ Len(cur[s].order_pack) = cur[s].i - 1
           /\ Mine(s) = <<>> /\ MinePending(s) = <<>>
           /\ ~cur[s].invoked
           /\ phase[s] = "BUILT"
      /\ pc[s] = "prelim" =>
           /\ Len(MinePending(s)) = cur[s].j - 1
           /\ Mine(s) = <<>>
           /\ ~cur[s].invoked
      /\ pc[s] = "submit" => ~cur[s].invoked
      /\ pc[s] \in {"final", "update"} =>
           /\ cur[s].invoked
           /\ cur[s].failed = ""
           /\ cur[s].ack.orderInstructId # Null
           /\ phase[s] = "SUBMITTED"
      /\ cur[s].rejected =>
           /\ pc[s] = "idle"
           /\ phase[s] = "REJECTED_BY_RISK"
           /\ Len(cur[s].order_pack) = cur[s].i
           /\ ~cur[s].invoked
      /\ phase[s] = "REJECTED_BY_RISK" => cur[s].rejected

\* what holds of every step of a submit call: control and phase only move
\* forward, one place at a time; the rejection is taken in the gate; the
\* client is invoked in the submission, which is left with the invocation;
\* rows of the batch become durable in the one commit of intent logging
C18_Step ==
  \A s \in Sessions :
    (cur[s].kind \in SubmitKinds /\ cur'[s].kind = cur[s].kind
       /\ cur'[s].n = cur[s].n) =>
      /\ pc'[s] # pc[s] => pc'[s] \in NextPlaces(pc[s])
      /\ phase'[s] # phase[s] => phase'[s] \in NextPhases(phase[s])
      /\ (cur'[s].rejected /\ ~cur[s].rejected) => pc[s] = "gate"
      /\ (cur'[s].invoked /\ ~cur[s].invoked) =>
           (pc[s] = "submit" /\ pc'[s] # "submit")
      /\ cur'[s].i # cur[s].i => (pc[s] = "gate" /\ cur'[s].i = cur[s].i + 1)
      /\ Mine(s)' # Mine(s) =>
           \/ pc[s] = "prelim" /\ pc'[s] = "submit" /\ Mine(s) = <<>>
           \/ pc[s] = "update" /\ pc'[s] = "idle" /\ Len(Mine(s)') = Len(Mine(s))

\* C18: within one submit call the phases occur only in the order gate,
\* intent logging, submission, outcome logging; the risk check runs once per
\* order, in batch order, before any write or submission; intent logging,
\* the submission and outcome logging each happen at most once; outcome
\* logging follows an acknowledgment; and the rejected exit is taken only
\* while gating.
C18_PhaseOrdering == []C18_Inv /\ [][C18_Step]_vars

\* a call of two orders has gone through every phase and returned
C18_Witness ==
  \E s \in Sessions :
    /\ cur[s].kind = "submit_orders"
    /\ Len(cur[s].orders) = 2
    /\ pc[s] = "idle"
    /\ phase[s] = "RECONCILED"
    /\ cur[s].j = 3

\* row matches some confirmation of ack by loan and requested amount
Confirmed(row, ack) ==
  \E k \in 1..Len(ack.orderConfirmations) :
    /\ ack.orderConfirmations[k].loanId = row.loan_id
    /\ ack.orderConfirmations[k].requestedAmount = row.requested_amount

\* a step of final_log_order adds no row, leaves loan, client and requested
\* amount of every row alone, and changes a row only if it was unresolved
\* and matches a confirmation of the acknowledgment
C19_Step ==
  \A s \in Sessions :
    pc[s] \in {"final", "update"} =>
      /\ Len(ledger') = Len(ledger)
      /\ \A k \in 1..Len(ledger) :
           /\ ledger'[k].loan_id = ledger[k].loan_id
           /\ ledger'[k].client_id = ledger[k].client_id
           /\ ledger'[k].requested_amount = ledger[k].requested_amount
           /\ ledger'[k] # ledger[k] =>
                /\ ledger[k].execution_code = Null
                /\ Confirmed(ledger[k], cur[s].ack)

\* C19: final_log_order changes only the four outcome fields of unresolved
\* rows that match a confirmation by loan and requested amount; every other
\* row and field of the ledger is as it was, and no row is added.
C19_FrameOfOutcomeLogging == [][C19_Step]_vars

\* the outcome fields of a row are set together
SetTogether(row) ==
  /\ (row.execution_code = Null) <=> (row.time_acknowledged = Null)
  /\ row.execution_code = Null =>
       (row.invested_amount = Null /\ row.ex_order_id = Null)

\* C20: in every reachable state every row, durable or pending in a
\* transaction, has its execution code null exactly when its acknowledgment
\* time is null, and a row with a null execution code has a null invested
\* amount and a null external order id: no row has only some of its outcome
\* fields filled.
C20_OutcomeFieldsSetTogether ==
  /\ \A k \in 1..Len(ledger) : SetTogether(ledger[k])
  /\ \A s \in Sessions :
       /\ \A k \in 1..Len(txn[s].ins) : SetTogether(txn[s].ins[k])
       /\ \A k \in DOMAIN txn[s].upd : SetTogether(txn[s].upd[k])

\* a resolved row and an unresolved row are in the ledger while an update
\* is pending in a transaction
C20_Witness ==
  /\ \E k \in 1..Len(ledger) : ledger[k].execution_code # Null
  /\ \E k \in 1..Len(ledger) : ledger[k].execution_code = Null
  /\ \E s \in Sessions : txn[s].upd # <<>>

\* row as it was before the acknowledgment with instruct id id resolved it
Reset(row, id) ==
  IF row.ex_order_id = id
  THEN [row EXCEPT !.invested_amount = Null, !.ex_order_id = Null,
                   !.time_acknowledged = Null, !.execution_code = Null]
  ELSE row

\* row with the value of its acknowledgment time left out of account
NoTime(row) ==
  [row EXCEPT !.time_acknowledged = IF @ = Null THEN Null ELSE Some(0)]

\* the ledger L after one delivery that applies the UPDATEs of order_list
\* one after the other
RECURSIVE Delivered(_, _)
Delivered(L, order_list) ==
  IF order_list = <<>> THEN L
  ELSE Delivered([k \in 1..Len(L) |->
                    IF Matches(L[k], Head(order_list))
                    THEN Resolve(L[k], Head(order_list), 0)
                    ELSE L[k]],
                 Tail(order_list))

\* the two sessions have each run outcome logging for the same
\* acknowledgment to its end, one of them as a duplicate delivery
BothDelivered(s, o) ==
  /\ s # o
  /\ deliveries[1] + deliveries[2] = 1
  /\ cur[s].kind = "final_log_order"
  /\ cur[o].kind \in SubmitKinds
  /\ cur[s].ack = cur[o].ack
  /\ pc[s] = "idle" /\ phase[s] = "RECONCILED"
  /\ pc[o] = "idle" /\ phase[o] = "RECONCILED"

\* C13: when two sessions on one store have run outcome logging for the same
\* acknowledgment, in any interleaving, every row it resolved was updated by
\* exactly one of them (their row counts add up to the number of rows that
\* carry its instruct id), and the ledger is the one a single delivery
\* produces.
C13_ConcurrentDuplicateDelivery ==
  \A s, o \in Sessions :
    BothDelivered(s, o) =>
      /\ cur[s].rowcount + cur[o].rowcount =
           Cardinality({k \in 1..Len(ledger) :
                          ledger[k].ex_order_id = cur[s].ack.orderInstructId})
      /\ [k \in 1..Len(ledger) |-> NoTime(ledger[k])] =
           LET L0 == [k \in 1..Len(ledger) |->
                        Reset(ledger[k], cur[s].ack.orderInstructId)]
               L1 == Delivered(L0, cur[s].order_list)
           IN  [k \in 1..Len(L1) |-> NoTime(L1[k])]

\* the duplicate delivery got its UPDATE in between the marketplace's answer
\* and the UPDATE of the call that received it: the duplicate resolved the
\* row and the receiving call updated none
C13_Witness ==
  \E s, o \in Sessions :
    /\ BothDelivered(s, o)
    /\ cur[s].rowcount = 1
    /\ cur[o].rowcount = 0

\* an UPDATE of final_log_order resolves every durable row that is
\* unresolved and has the confirmation's loan and amount, whichever session
\* inserted it: the WHERE clause does not name the inserting session or call
C17_Step ==
  \A s \in Sessions :
    (pc[s] = "update" /\ cur'[s].j = cur[s].j + 1) =>
      LET od == cur[s].order_list[cur[s].j]
      IN  \A k \in 1..Len(ledger) :
            (/\ ViewRow(s, k).loan_id = od.loan_id
             /\ ViewRow(s, k).requested_amount = od.requested_amount
             /\ ViewRow(s, k).execution_code = Null) =>
              /\ k \in DOMAIN txn'[s].upd
              /\ txn'[s].upd[k].ex_order_id = Some(od.instruct_id)
              /\ txn'[s].upd[k].execution_code = Some(od.execution_code)

\* C17: with two sessions submitting an order for the same loan and amount,
\* nothing keeps the acknowledgment of one session from resolving the row
\* the other session inserted: its UPDATE takes every unresolved row of the
\* pair.
C17_CrossSessionMisResolution == [][C17_Step]_vars

\* the rows of both sessions were unresolved together, and the
\* acknowledgment of session s has resolved the row session o inserted while
\* o still stands before its own submission
C17_Witness ==
  \E s, o \in Sessions :
    /\ s # o
    /\ pc[o] = "submit"
    /\ lastAck[s] # NoAck
    /\ \E k \in 1..Len(ledger) :
         /\ ledger[k].call = <<o, cur[o].n>>
         /\ ledger[k].ex_order_id = lastAck[s].orderInstructId
    /\ \E k \in 1..Len(ledger) :
         /\ ledger[k].call[1] = s
         /\ ledger[k].ex_order_id = lastAck[s].orderInstructId

====
